---------------------------- MODULE Spec2Model ----------------------------
(***************************************************************************)
(* createConfig (liristech:create-config): a static configuration object   *)
(* merged with values read from Meteor collections.                        *)
(*                                                                         *)
(* JavaScript values are tagged records of one shape, so that any two can  *)
(* be compared:                                                            *)
(*   t  the type tag                                                       *)
(*   s  the characters of a string (or the digit of a number)              *)
(*   a  the elements of an array                                           *)
(*   m  the own properties of a plain object, keyed by JavaScript strings  *)
(* A JavaScript string is a sequence of one-character strings.             *)
(***************************************************************************)
EXTENDS Naturals, Sequences, FiniteSets

NoProps == [k \in {} |-> k]

Undef == [t |-> "undefined", s |-> <<>>, a |-> <<>>, m |-> NoProps]
Null == [t |-> "null", s |-> <<>>, a |-> <<>>, m |-> NoProps]
Str(cs) == [t |-> "string", s |-> cs, a |-> <<>>, m |-> NoProps]
Num(d) == [t |-> "number", s |-> <<d>>, a |-> <<>>, m |-> NoProps]
Arr(vs) == [t |-> "array", s |-> <<>>, a |-> vs, m |-> NoProps]
Obj(f) == [t |-> "object", s |-> <<>>, a |-> <<>>, m |-> f]
Err(msg) == [t |-> "error", s |-> <<msg>>, a |-> <<>>, m |-> NoProps]
\* a function of two parameters (the customizer handed to _.mergeWith)
Fn == [t |-> "function", s |-> <<>>, a |-> <<>>, m |-> NoProps]

\* String(index) for the indices the model reaches, and its inverse.
Digits == <<"0", "1", "2", "3", "4", "5", "6", "7", "8", "9">>
IndexKey(i) == <<Digits[i + 1]>>
IsIndexKey(key) == Len(key) = 1 /\ \E i \in 1..Len(Digits) : Digits[i] = key[1]
KeyIndex(key) == CHOOSE i \in 0..(Len(Digits) - 1) : Digits[i + 1] = key[1]

(***************************************************************************)
(* lodash predicates                                                       *)
(***************************************************************************)
isString(v) == v.t = "string"
isArray(v) == v.t = "array"
isUndefined(v) == v.t = "undefined"
isNil(v) == v.t \in {"undefined", "null"}
isPlainObject(v) == v.t = "object"
isObject(v) == v.t \in {"object", "array", "error", "function"}
isError(v) == v.t = "error"
\* JavaScript truthiness: undefined, null, '' and 0 are falsy.
Truthy(v) ==
    /\ ~isNil(v)
    /\ ~(v.t = "string" /\ v.s = <<>>)
    /\ ~(v.t = "number" /\ v.s = <<"0">>)

(***************************************************************************)
(* String.prototype.split('.') and Array.prototype.join('.')               *)
(***************************************************************************)
RECURSIVE SplitFrom(_, _, _)
SplitFrom(cs, i, cur) ==
    IF i > Len(cs) THEN <<cur>>
    ELSE IF cs[i] = "." THEN <<cur>> \o SplitFrom(cs, i + 1, <<>>)
    ELSE SplitFrom(cs, i + 1, Append(cur, cs[i]))

split(cs) == SplitFrom(cs, 1, <<>>)

RECURSIVE join(_)
join(segs) ==
    IF Len(segs) = 0 THEN <<>>
    ELSE IF Len(segs) = 1 THEN segs[1]
    ELSE segs[1] \o <<".">> \o join(Tail(segs))

(***************************************************************************)
(* _.get(object, path)                                                     *)
(***************************************************************************)
LengthKey == <<"l", "e", "n", "g", "t", "h">>
NameKey == <<"n", "a", "m", "e">>

\* object[key] for a value that is not null or undefined
Prop(v, key) ==
    IF v.t = "object" THEN (IF key \in DOMAIN v.m THEN v.m[key] ELSE Undef)
    ELSE IF v.t = "array" THEN
        (IF IsIndexKey(key) /\ KeyIndex(key) < Len(v.a) THEN v.a[KeyIndex(key) + 1] ELSE Undef)
    ELSE IF v.t = "string" THEN
        (IF IsIndexKey(key) /\ KeyIndex(key) < Len(v.s) THEN Str(<<v.s[KeyIndex(key) + 1]>>) ELSE Undef)
    ELSE IF v.t = "function" THEN
        (IF key = LengthKey THEN Num("2") ELSE IF key = NameKey THEN Str(<<>>) ELSE Undef)
    ELSE Undef

\* key in Object(object)
HasProp(v, key) ==
    \/ v.t = "object" /\ key \in DOMAIN v.m
    \/ v.t = "array" /\ IsIndexKey(key) /\ KeyIndex(key) < Len(v.a)
    \/ v.t = "string" /\ IsIndexKey(key) /\ KeyIndex(key) < Len(v.s)
    \/ v.t = "function" /\ key \in {LengthKey, NameKey}

RECURSIVE baseGetFrom(_, _, _)
baseGetFrom(object, path, index) ==
    IF ~isNil(object) /\ index < Len(path)
    THEN baseGetFrom(Prop(object, path[index + 1]), path, index + 1)
    ELSE IF index # 0 /\ index = Len(path) THEN object ELSE Undef

baseGet(object, path) == baseGetFrom(object, path, 0)

\* isKey: a string with no '.' is one key, and so is any own key of the object
isKey(cs, object) ==
    \/ \A i \in 1..Len(cs) : cs[i] # "."
    \/ (~isNil(object) /\ HasProp(object, cs))

stringToPath(cs) == IF cs = <<>> THEN <<>> ELSE split(cs)

castPath(cs, object) == IF isKey(cs, object) THEN <<cs>> ELSE stringToPath(cs)

\* _.get with a path array
getPath(object, path) == baseGet(object, path)
\* _.get with a path string
getString(object, cs) == baseGet(object, castPath(cs, object))

(***************************************************************************)
(* _.mergeWith({}, ...sources, customizer)                                 *)
(***************************************************************************)
\* The customizer of createConfig. Undef stands for "no value returned",
\* which leaves the decision to lodash.
customizer(left, right) ==
    IF isArray(right) THEN right
    ELSE IF isArray(left) THEN (IF isNil(right) THEN left ELSE right)
    ELSE Undef

Customize(custom, left, right) == IF custom THEN customizer(left, right) ELSE Undef

Max(x, y) == IF x >= y THEN x ELSE y

\* keysIn(source): the indices of a string or an array, the keys of an object
keysIn(source) ==
    IF source.t = "object" THEN DOMAIN source.m
    ELSE IF source.t = "array" THEN {IndexKey(i - 1) : i \in 1..Len(source.a)}
    ELSE IF source.t = "string" THEN {IndexKey(i - 1) : i \in 1..Len(source.s)}
    ELSE {}

RECURSIVE baseMerge(_, _, _)
RECURSIVE baseMergeDeep(_, _, _, _)

\* The value baseMergeDeep hands to assignMergeValue for an object or array
\* srcValue at key.
baseMergeDeep(object, source, key, custom) ==
    LET objValue == Prop(object, key)
        srcValue == Prop(source, key)
        newValue == Customize(custom, objValue, srcValue)
    IN  IF ~isUndefined(newValue) THEN newValue
        ELSE IF isArray(srcValue) THEN
            baseMerge(IF isArray(objValue) THEN objValue ELSE Arr(<<>>), srcValue, custom)
        ELSE IF isPlainObject(srcValue) THEN
            baseMerge(IF isObject(objValue) /\ objValue.t # "function"
                      THEN objValue ELSE Obj(NoProps), srcValue, custom)
        ELSE srcValue

\* object after baseMerge(object, source): every key of the source is
\* assigned through assignMergeValue. Of the properties given to an array
\* only the indices are kept.
baseMerge(object, source, custom) ==
    LET ks == keysIn(source)
        newValue(k) ==
            IF isObject(Prop(source, k)) THEN baseMergeDeep(object, source, k, custom)
            ELSE LET c == Customize(custom, Prop(object, k), Prop(source, k))
                 IN  IF isUndefined(c) THEN Prop(source, k) ELSE c
        \* assignMergeValue: undefined never replaces a property
        assigned(k) ==
            IF k \notin ks THEN Prop(object, k)
            ELSE IF isUndefined(newValue(k)) THEN Prop(object, k)
            ELSE newValue(k)
    IN  IF object.t = "array"
        THEN LET n == IF source.t \in {"array", "string"}
                      THEN Max(Len(object.a), Cardinality(ks)) ELSE Len(object.a)
             IN  Arr([i \in 1..n |-> assigned(IndexKey(i - 1))])
        ELSE Obj([k \in (DOMAIN object.m) \cup ks |-> assigned(k)])

\* SameValueZero of two values that are no references to one object
eq(x, y) == ~isObject(x) /\ x = y

isIterateeCall(value, index, object) ==
    /\ isObject(object)
    /\ IF index.t = "number"
       THEN object.t = "array" /\ IsIndexKey(index.s) /\ KeyIndex(index.s) < Len(object.a)
       ELSE index.t = "string" /\ HasProp(object, index.s)
    /\ eq(Prop(object, index.s), value)

RECURSIVE mergeInto(_, _, _, _, _)
mergeInto(object, sources, index, length, custom) ==
    IF index > length THEN object
    ELSE mergeInto(IF Truthy(sources[index])
                   THEN baseMerge(object, sources[index], custom) ELSE object,
                   sources, index + 1, length, custom)

\* createAssigner: sources are the values handed to mergeWith before the
\* customizer; the guard drops all but the first one when the call looks
\* like an iteratee call.
mergeWith(sources) ==
    LET all == Append(sources, Fn)
        guard == IF Len(all) > 2 THEN all[3] ELSE Undef
        guarded == Len(all) > 2 /\ isIterateeCall(all[1], all[2], guard)
        length == IF guarded THEN 1 ELSE Len(sources)
        custom == IF guarded THEN Len(sources) >= 3 ELSE TRUE
    IN  mergeInto(Obj(NoProps), sources, 1, length, custom)

reverse(xs) == [i \in 1..Len(xs) |-> xs[Len(xs) + 1 - i]]

filterNotNil(xs) == SelectSeq(xs, LAMBDA v : ~isNil(v))

(***************************************************************************)
(* The inputs: static parts, layer descriptions, documents and paths.      *)
(***************************************************************************)
MaxLayers == 2

Key(c) == <<c>>
Obj1(k, v) == Obj([x \in {Key(k)} |-> v])
Obj2(k1, v1, k2, v2) == Obj([x \in {Key(k1), Key(k2)} |-> IF x = Key(k1) THEN v1 ELSE v2])

Large == Str(<<"l", "g">>)
Medium == Str(<<"m">>)
Small == Str(<<"s", "m", "l">>)
ListA == Arr(<<Str(<<"a">>)>>)
ListBC == Arr(<<Str(<<"b">>), Str(<<"c">>)>>)

\* The static parts and the documents of the collections: "s" stands for
\* screen, "h" for height, "w" for width.
StaticParts ==
    {Obj1("s", Obj2("h", Large, "w", Medium)),
     Obj1("s", Obj2("h", ListBC, "w", Medium)),
     Obj2("s", Obj1("h", Large), "h", ListA)}

Documents == {Undef, Obj1("s", Obj1("h", Small)), Obj1("s", Obj2("h", Null, "w", Small))}

\* what a configuration holds at "s.h" when the merge is explored
Heights ==
    {Large, Small, Num("7"), Null, Arr(<<>>), ListA, ListBC,
     Obj1("k", Large), Obj2("k", ListA, "w", Null)}

MergeStaticParts ==
    {Obj1("s", Obj2("h", v, "w", Medium)) : v \in Heights \ {Null}}
        \cup {Obj1("s", ListBC), Obj2("s", Obj1("h", Large), "h", ListA)}

MergeDocuments ==
    {Undef, Obj1("s", Obj(NoProps)), Obj1("s", Obj1("w", Small)), Obj1("s", Obj1("h", Undef)),
     Obj1("s", ListA)}
        \cup {Obj1("s", Obj1("h", v)) : v \in Heights}

\* collection: "function" (returns a collection when called), "collection"
\* (has find and findOne), "findOneOnly" (has findOne, no find), "other".
\* selector: "function", "object", "other".
Plain == [collection |-> "collection", selector |-> "object", pathPrefix |-> Undef]
ValidLayers ==
    {Plain,
     [collection |-> "function", selector |-> "function",
      pathPrefix |-> Arr(<<Str(<<"s">>)>>)]}
InvalidLayers ==
    {[Plain EXCEPT !.collection = "other", !.selector = "function"],
     [Plain EXCEPT !.collection = "other", !.selector = "other"],
     [Plain EXCEPT !.collection = "findOneOnly"],
     [Plain EXCEPT !.selector = "other"],
     [Plain EXCEPT !.collection = "function", !.selector = "other"],
     [Plain EXCEPT !.pathPrefix = Num("7")],
     [Plain EXCEPT !.collection = "other", !.pathPrefix = Null]}

RECURSIVE SeqsUpTo(_, _)
SeqsUpTo(S, n) ==
    IF n = 0 THEN {<<>>}
    ELSE LET shorter == SeqsUpTo(S, n - 1)
         IN  shorter \cup {Append(q, x) : q \in {r \in shorter : Len(r) = n - 1}, x \in S}

Paths ==
    {Undef, Null, Num("7"),
     Str(<<>>), Str(<<"s">>), Str(<<"h">>), Str(<<"s", ".", "h">>),
     Str(<<"s", ".", "h", ".", "k">>),
     Arr(<<>>), Arr(<<Str(<<>>)>>), Arr(<<Str(<<"s">>)>>), Arr(<<Str(<<"h">>)>>),
     Arr(<<Str(<<"s">>), Str(<<"h">>)>>),
     Arr(<<Str(<<"s">>), Str(<<"h">>), Str(<<"k">>)>>)}

Opts == {"optsA", "optsB"}

(***************************************************************************)
(* createConfig(staticPart, dynamicPart) and the function it returns       *)
(***************************************************************************)
VARIABLES
    staticPart,     \* the static configuration object
    dynamicPart,    \* the layer descriptions, in decreasing authority
    isClient,       \* Meteor.isClient
    db,             \* the documents a findOne may return
    pc,             \* "idle", "map", "returned" or "thrown"
    path, opts,     \* the arguments of the call in progress
    _path,          \* the path as an array of keys
    mapped,         \* what the map callback returned for the layers done
    found,          \* the documents the findOne calls of this call returned
    calls,          \* the provider, selector and findOne calls of this call
    result,         \* the value returned
    thrown          \* the error thrown

vars == <<staticPart, dynamicPart, isClient, db, pc, path, opts, _path, mapped, found,
          calls, result, thrown>>

\* normalizePath taking a string for one key, without splitting it
normalizePathUnsplit(p) ==
    IF isString(p) THEN Arr(<<p>>)
    ELSE IF isArray(p) THEN p
    ELSE IF isUndefined(p) THEN Arr(<<>>)
    ELSE Err("path")

\* lines 39-43: an array value of keys, or the error to throw
normalizePath(p) ==
    IF isString(p) THEN Arr([i \in 1..Len(split(p.s)) |-> Str(split(p.s)[i])])
    ELSE IF isArray(p) THEN p
    ELSE IF isUndefined(p) THEN Arr(<<>>)
    ELSE Err("path")

\* lines 61-65
normalizePrefix(pathPrefix) ==
    IF isString(pathPrefix)
    THEN Arr([i \in 1..Len(split(pathPrefix.s)) |-> Str(split(pathPrefix.s)[i])])
    ELSE IF isArray(pathPrefix) THEN pathPrefix
    ELSE IF isUndefined(pathPrefix) THEN Arr(<<>>)
    ELSE Err("keyPrefix")

\* the keys of an array of strings
keysOf(arr) == [i \in 1..Len(arr.a) |-> arr.a[i].s]

\* line 68
pathInDocument(prefix, p) == join(keysOf(prefix) \o keysOf(p))

\* a call made by getConfig: a provider or selector function called with the
\* options, or findOne called for the path in the document (with the fields
\* option on the client)
CallEvent(op, layer, arg, fields) == [op |-> op, layer |-> layer, arg |-> arg, fields |-> fields]

\* lines 50-53: the value of _collection; the error is built, not thrown
resolveCollection(collection) ==
    IF collection = "function" THEN "collection"
    ELSE IF collection = "collection" THEN collection
    ELSE "error"

\* layerCallback checking the selector and the prefix only after findOne
layerCallbackLateChecks(spec, o, p, client, doc, layer) ==
    LET collectionCalls ==
            IF spec.collection = "function"
            THEN <<CallEvent("collection", layer, <<o>>, FALSE)>> ELSE <<>>
        store == resolveCollection(spec.collection)
        selectorCalls ==
            IF spec.selector = "function"
            THEN <<CallEvent("selector", layer, <<o>>, FALSE)>> ELSE <<>>
        prefix == normalizePrefix(spec.pathPrefix)
        lookup == IF isError(prefix) THEN <<>> ELSE pathInDocument(prefix, p)
        after == Append(collectionCalls \o selectorCalls,
                        CallEvent("findOne", layer, lookup, client))
    IN  IF store # "collection"
        THEN [events |-> collectionCalls \o selectorCalls, thrown |-> Err("TypeError"),
              value |-> Undef]
        ELSE IF spec.selector \notin {"function", "object"}
        THEN [events |-> after, thrown |-> Err("selector"), value |-> Undef]
        ELSE IF isError(prefix)
        THEN [events |-> after, thrown |-> prefix, value |-> Undef]
        ELSE [events |-> after, thrown |-> Undef, value |-> getString(doc, lookup)]

\* The map callback (lines 47-77) on layer number layer (from 0), when a
\* findOne on the layer's collection returns doc: the calls made in order,
\* the error thrown (Undef if none) and the value returned.
layerCallback(spec, o, p, client, doc, layer) ==
    LET collectionCalls ==
            IF spec.collection = "function"
            THEN <<CallEvent("collection", layer, <<o>>, FALSE)>> ELSE <<>>
        store == resolveCollection(spec.collection)
        selectorCalls ==
            IF spec.selector = "function"
            THEN <<CallEvent("selector", layer, <<o>>, FALSE)>> ELSE <<>>
        prefix == normalizePrefix(spec.pathPrefix)
        before == collectionCalls \o selectorCalls
    IN  IF spec.selector \notin {"function", "object"}
        THEN [events |-> collectionCalls, thrown |-> Err("selector"), value |-> Undef]
        ELSE IF isError(prefix)
        THEN [events |-> before, thrown |-> prefix, value |-> Undef]
        ELSE IF store # "collection"
        THEN [events |-> before, thrown |-> Err("TypeError"), value |-> Undef]
        ELSE [events |-> Append(before,
                         CallEvent("findOne", layer, pathInDocument(prefix, p), client)),
              thrown |-> Undef,
              value |-> getString(doc, pathInDocument(prefix, p))]

\* finish without the check of lines 83-85
finishUnchecked(config, p, valuesFromDb) ==
    IF Len(valuesFromDb) # 0
    THEN [thrown |-> Undef,
          value |-> mergeWith(reverse(Append(valuesFromDb, getPath(config, keysOf(p)))))]
    ELSE [thrown |-> Undef, value |-> getPath(config, keysOf(p))]

\* lines 81-107: the error thrown (Undef if none) and the value returned
finish(config, p, valuesFromDb) ==
    IF Len(valuesFromDb) # 0
    THEN LET valueFromStaticPart == getPath(config, keysOf(p))
         IN  IF isNil(valueFromStaticPart)
             THEN [thrown |-> Err("staticPart"), value |-> Undef]
             ELSE [thrown |-> Undef,
                   value |-> mergeWith(reverse(Append(valuesFromDb, valueFromStaticPart)))]
    ELSE [thrown |-> Undef, value |-> getPath(config, keysOf(p))]

\* The whole call as a function of its arguments and of the documents the
\* layers' findOne return (docs[i + 1] for layer i): lines 38-108.
RECURSIVE mapFrom(_, _, _, _, _)
mapFrom(layer, o, p, docs, acc) ==
    IF layer = Len(dynamicPart) THEN acc
    ELSE LET out == layerCallback(dynamicPart[layer + 1], o, p, isClient, docs[layer + 1], layer)
         IN  IF isError(out.thrown)
             THEN [calls |-> acc.calls \o out.events, thrown |-> out.thrown,
                   mapped |-> acc.mapped]
             ELSE mapFrom(layer + 1, o, p, docs,
                          [calls |-> acc.calls \o out.events, thrown |-> Undef,
                           mapped |-> Append(acc.mapped, out.value)])

getConfig(p, o, docs) ==
    IF isError(normalizePath(p))
    THEN [calls |-> <<>>, thrown |-> normalizePath(p), result |-> Undef]
    ELSE LET m == mapFrom(0, o, normalizePath(p), docs,
                          [calls |-> <<>>, thrown |-> Undef, mapped |-> <<>>])
             out == finish(staticPart, normalizePath(p), filterNotNil(m.mapped))
         IN  IF isError(m.thrown)
             THEN [calls |-> m.calls, thrown |-> m.thrown, result |-> Undef]
             ELSE [calls |-> m.calls, thrown |-> out.thrown, result |-> out.value]

Init ==
    /\ staticPart \in StaticParts
    /\ dynamicPart \in SeqsUpTo(ValidLayers \cup InvalidLayers, MaxLayers)
    /\ isClient \in BOOLEAN
    /\ db = Documents
    /\ pc = "idle"
    /\ path = Undef /\ opts = "none" /\ _path = Undef
    /\ mapped = <<>> /\ found = <<>> /\ calls = <<>>
    /\ result = Undef /\ thrown = Undef

\* getConfig(path, opts) is called: lines 39-44
Invoke(p, o) ==
    /\ pc = "idle"
    /\ path' = p /\ opts' = o
    /\ mapped' = <<>> /\ found' = <<>> /\ calls' = <<>> /\ result' = Undef
    /\ IF isError(normalizePath(p))
       THEN pc' = "thrown" /\ thrown' = normalizePath(p) /\ _path' = Undef
       ELSE pc' = "map" /\ thrown' = Undef /\ _path' = normalizePath(p)
    /\ UNCHANGED <<staticPart, dynamicPart, isClient, db>>

\* the map callback runs on the next layer: lines 47-77
MapLayer ==
    /\ pc = "map"
    /\ Len(mapped) < Len(dynamicPart)
    /\ \E doc \in db :
        LET out == layerCallback(dynamicPart[Len(mapped) + 1], opts, _path, isClient, doc,
                                 Len(mapped))
        IN  /\ calls' = calls \o out.events
            /\ IF isError(out.thrown)
               THEN /\ pc' = "thrown" /\ thrown' = out.thrown
                    /\ mapped' = mapped /\ found' = found
               ELSE /\ pc' = "map" /\ thrown' = Undef
                    /\ mapped' = Append(mapped, out.value) /\ found' = Append(found, doc)
    /\ UNCHANGED <<staticPart, dynamicPart, isClient, db, path, opts, _path, result>>

\* every layer is mapped: the filter, then lines 81-107
Finish ==
    /\ pc = "map"
    /\ Len(mapped) = Len(dynamicPart)
    /\ LET out == finish(staticPart, _path, filterNotNil(mapped))
       IN  IF isError(out.thrown)
           THEN pc' = "thrown" /\ thrown' = out.thrown /\ result' = Undef
           ELSE pc' = "returned" /\ thrown' = Undef /\ result' = out.value
    /\ UNCHANGED <<staticPart, dynamicPart, isClient, db, path, opts, _path, mapped, found,
                   calls>>

\* the call is over; nothing of it is kept
Return ==
    /\ pc \in {"returned", "thrown"}
    /\ pc' = "idle"
    /\ path' = Undef /\ opts' = "none" /\ _path' = Undef
    /\ mapped' = <<>> /\ found' = <<>> /\ calls' = <<>> /\ result' = Undef /\ thrown' = Undef
    /\ UNCHANGED <<staticPart, dynamicPart, isClient, db>>

Next ==
    \/ \E p \in Paths, o \in Opts : Invoke(p, o)
    \/ MapLayer
    \/ Finish
    \/ Return

Spec == Init /\ [][Next]_vars

\* The same program over more values and fewer kinds of layers.
InitMerge ==
    /\ staticPart \in MergeStaticParts
    /\ dynamicPart \in SeqsUpTo({Plain, [Plain EXCEPT !.pathPrefix = Str(<<"s">>)]}, MaxLayers)
    /\ isClient \in BOOLEAN
    /\ db = MergeDocuments
    /\ pc = "idle"
    /\ path = Undef /\ opts = "none" /\ _path = Undef
    /\ mapped = <<>> /\ found = <<>> /\ calls = <<>>
    /\ result = Undef /\ thrown = Undef

SpecMerge == InitMerge /\ [][Next]_vars

(***************************************************************************)
(* What the properties speak of                                            *)
(***************************************************************************)
NumLayers == Len(dynamicPart)
Ended == pc \in {"returned", "thrown"}
\* every layer's lookup has returned
AllLooked == Ended /\ _path # Undef /\ Len(mapped) = NumLayers
LayerValues == filterNotNil(mapped)
Segments == keysOf(_path)

\* Plain lookup of a path in a nested mapping; the empty path is the root.
RECURSIVE Lookup(_, _)
Lookup(v, segs) ==
    IF segs = <<>> THEN v
    ELSE IF v.t = "object" /\ Head(segs) \in DOMAIN v.m THEN Lookup(v.m[Head(segs)], Tail(segs))
    ELSE Undef

StaticValue == Lookup(staticPart, Segments)

\* 'a.b.c' for the segments a, b, c
RECURSIVE Dotted(_)
Dotted(segs) ==
    IF Len(segs) = 1 THEN segs[1]
    ELSE Dotted(SubSeq(segs, 1, Len(segs) - 1)) \o <<".">> \o segs[Len(segs)]

DotFree(segs) == \A i \in 1..Len(segs) : \A j \in 1..Len(segs[i]) : segs[i][j] # "."

\* arr is the array of the segments of the dotted string str
Corresponds(arr, str) ==
    /\ isArray(arr) /\ arr.a # <<>> /\ DotFree(keysOf(arr))
    /\ isString(str) /\ str.s = Dotted(keysOf(arr))

\* the layers findOne was called on, in the order of the calls
FindOneLayers ==
    LET finds == SelectSeq(calls, LAMBDA e : e.op = "findOne")
    IN  [i \in 1..Len(finds) |-> finds[i].layer]
UpTo(n) == [i \in 1..n |-> i - 1]
Called(op, layer) == \E i \in 1..Len(calls) : calls[i].op = op /\ calls[i].layer = layer

\* the documents the findOne calls of this call returned, by layer; a layer
\* findOne was not called on has none
DocsOfCall == [i \in 1..NumLayers |-> IF i <= Len(found) THEN found[i] ELSE Undef]

\* the call in progress has ended as out
IsOutcome(out) ==
    /\ isError(out.thrown) = (pc = "thrown")
    /\ out.thrown = thrown
    /\ out.result = result
    /\ out.calls = calls

ValidPath(p) == isString(p) \/ isArray(p) \/ isUndefined(p)
ValidSelector(spec) == spec.selector \in {"function", "object"}
ValidPrefix(spec) ==
    isString(spec.pathPrefix) \/ isArray(spec.pathPrefix) \/ isUndefined(spec.pathPrefix)
\* a collection, or a function that returns one
UsableProvider(spec) == spec.collection \in {"function", "collection"}
HasFindOne(spec) == spec.collection \in {"collection", "findOneOnly"}
IsScalar(v) == v.t \in {"string", "number"}

\* the layer whose callback threw, if the call was ended by one
ThrowingLayer == Len(mapped)
ThrownInLayer ==
    pc = "thrown" /\ _path # Undef /\ thrown # Err("staticPart") /\ Len(mapped) < NumLayers
Reached(i) == i < Len(mapped) \/ (ThrownInLayer /\ i = ThrowingLayer)

\* layer i is the first with a selector or a path prefix of a wrong type
FirstWrongSelectorOrPrefix(i) ==
    /\ ~(ValidSelector(dynamicPart[i + 1]) /\ ValidPrefix(dynamicPart[i + 1]))
    /\ \A j \in 1..i : ValidSelector(dynamicPart[j]) /\ ValidPrefix(dynamicPart[j])

\* the step that looks the path up in the static part and merges
FinishStep ==
    /\ pc = "map"
    /\ pc' = "returned" \/ (pc' = "thrown" /\ thrown' = Err("staticPart"))

(***************************************************************************)
(* The deep merge the properties describe: hi laid over lo. Mappings merge *)
(* key by key; anything else a source holds at a key replaces what the     *)
(* sources of lower authority hold there.                                  *)
(***************************************************************************)
RECURSIVE LaidOver(_, _)
LaidOver(lo, hi) ==
    IF isPlainObject(lo) /\ isPlainObject(hi)
    THEN Obj([k \in (DOMAIN lo.m) \cup (DOMAIN hi.m) |->
                IF k \notin DOMAIN hi.m THEN lo.m[k]
                ELSE IF k \notin DOMAIN lo.m THEN hi.m[k]
                ELSE LaidOver(lo.m[k], hi.m[k])])
    ELSE hi

\* the static value under the layer values, the first of which has the
\* highest authority
RECURSIVE Merged(_, _)
Merged(static, values) ==
    IF values = <<>> THEN static
    ELSE LaidOver(Merged(static, Tail(values)), Head(values))

(***************************************************************************)
(* C1. When the static part holds a scalar at the path and the lookup of   *)
(* every layer returned a scalar, the call returns the scalar of the       *)
(* first layer of the list: with two layers [A, B] the value of A, and     *)
(* 'sml' for the static part {s: {h: 'lg', w: 'm'}}, one layer holding     *)
(* {s: {h: 'sml'}} and the path 's.h'.                                     *)
(***************************************************************************)
Precedence ==
    (/\ AllLooked /\ NumLayers >= 1
     /\ IsScalar(StaticValue)
     /\ \A i \in 1..NumLayers : IsScalar(mapped[i]))
        => (pc = "returned" /\ result = mapped[1])

MissingStaticFallbackIsFatal ==
    /\ (AllLooked /\ LayerValues # <<>> /\ isNil(StaticValue))
        => (pc = "thrown" /\ thrown = Err("staticPart") /\ result = Undef)
    /\ (Ended /\ LayerValues = <<>>)
        => /\ thrown # Err("staticPart")
           /\ (AllLooked /\ isNil(StaticValue)) => (pc = "returned" /\ isNil(result))

MissingStaticFallbackSeen ==
    /\ AllLooked /\ pc = "thrown" /\ thrown = Err("staticPart")
    /\ LayerValues # <<>> /\ isNil(StaticValue)
    /\ Called("findOne", 0)

(***************************************************************************)
(* C5. A call with no layer, or in which every layer's lookup returned     *)
(* null or undefined, returns what plain lookup of the path finds in the   *)
(* static part, and throws nothing.                                        *)
(***************************************************************************)
NoLayersIdentity ==
    (AllLooked /\ LayerValues = <<>>) => (pc = "returned" /\ result = StaticValue)

(***************************************************************************)
(* C6. A call without a path has the empty array of keys for its path,     *)
(* which is the root: with no layer it returns the static part, and with   *)
(* layers whose documents hold mappings at their prefix it returns the     *)
(* static part merged with them and does not throw the error of lines      *)
(* 83-85.                                                                  *)
(***************************************************************************)
AbsentPathIsRoot ==
    (Ended /\ isUndefined(path)) =>
        /\ _path = Arr(<<>>)
        /\ NumLayers = 0 => (pc = "returned" /\ result = staticPart)
        /\ (AllLooked /\ LayerValues # <<>>
                /\ \A i \in 1..Len(LayerValues) : isPlainObject(LayerValues[i]))
            => (pc = "returned" /\ result = Merged(staticPart, LayerValues))

ProviderResolution ==
    Ended =>
        \A i \in 0..(NumLayers - 1) :
            LET spec == dynamicPart[i + 1]
            IN  Reached(i) =>
                    /\ spec.collection = "function" =>
                           \E j \in 1..Len(calls) :
                               /\ calls[j].op = "collection" /\ calls[j].layer = i
                               /\ calls[j].arg = <<opts>>
                    /\ (HasFindOne(spec) /\ ValidSelector(spec) /\ ValidPrefix(spec))
                           => Called("findOne", i)
                    /\ (spec.collection # "function" /\ ~HasFindOne(spec))
                           => /\ pc = "thrown" /\ thrown = Err("collection")
                              /\ ThrowingLayer = i
                              /\ ~Called("selector", i) /\ ~Called("findOne", i)

(***************************************************************************)
(* C9. A call with the array ['a', 'b', 'c'] (no segment holding a '.')    *)
(* and a call with the string 'a.b.c', with the same options and the same  *)
(* documents returned by the collections, end the same way: the same       *)
(* value returned or the same error thrown, after the same calls of the    *)
(* providers, the selectors and findOne with the same path in the          *)
(* document.                                                               *)
(***************************************************************************)
PathEquivalence ==
    Ended =>
        \A other \in Paths :
            (Corresponds(path, other) \/ Corresponds(other, path))
                => IsOutcome(getConfig(other, opts, DocsOfCall))

PathEquivalenceSeen ==
    /\ pc = "returned" /\ isArray(path) /\ Len(path.a) = 2
    /\ Str(Dotted(keysOf(path))) \in Paths
    /\ Called("findOne", 0) /\ LayerValues # <<>>
    /\ ~isNil(result)

=============================================================================
